---- MODULE Spec2Model ----
(***************************************************************************)
(* The VaR endpoint of the Quantum Risk API (src/api/routes/risk_api.py):  *)
(* request validation, cache lookup, risk computation, cache store, audit  *)
(* dispatch and response assembly, with the Redis cache shared between     *)
(* requests.  FastAPI validates the body before it calls the handler; the  *)
(* handler runs without interruption except at its one await (line 207),   *)
(* so a request takes two steps, Begin and Resume, and other requests may  *)
(* run in between.  The optimize endpoint is modelled the same way.        *)
(***************************************************************************)
EXTENDS Integers, Sequences, FiniteSets, TLC

(***************************************************************************)
(* Python floats.  A float is an IEEE-754 binary64; the values the         *)
(* endpoint meets lie in [0, 4) and are multiples of 2^-72, so a float is  *)
(* held exactly as three 24-bit limbs <<a, b, c>> meaning                  *)
(* (a*2^48 + b*2^24 + c) * 2^-72.  Every arithmetic result is rounded to   *)
(* 53 significant bits, ties to even, as the hardware does.                *)
(***************************************************************************)
Limb == 2^24

Add3(x, y) ==
    LET c0 == x[3] + y[3]
        b0 == x[2] + y[2] + (c0 \div Limb)
        a0 == x[1] + y[1] + (b0 \div Limb)
    IN  <<a0, b0 % Limb, c0 % Limb>>

\* x - y for x >= y
Sub3(x, y) ==
    LET c0 == x[3] - y[3]
        bc == IF c0 < 0 THEN 1 ELSE 0
        b0 == x[2] - y[2] - bc
        bb == IF b0 < 0 THEN 1 ELSE 0
    IN  <<x[1] - y[1] - bb, b0 + bb * Limb, c0 + bc * Limb>>

FLess(x, y) ==
    \/ x[1] < y[1]
    \/ x[1] = y[1] /\ x[2] < y[2]
    \/ x[1] = y[1] /\ x[2] = y[2] /\ x[3] < y[3]

FZero == <<0, 0, 0>>
FOne == <<Limb, 0, 0>>

RECURSIVE FloorLog2(_)
FloorLog2(n) == IF n <= 1 THEN 0 ELSE 1 + FloorLog2(n \div 2)

\* Round the exact value x (sticky: a nonzero remainder lies below its last
\* limb) to the nearest binary64, ties to even.
RoundToDouble(x, sticky) ==
    IF x[1] < 32
    THEN x
    ELSE LET d == FloorLog2(x[1]) - 4
             unit == 2^d
             half == unit \div 2
             rem == x[3] % unit
             low == <<x[1], x[2], x[3] - rem>>
             odd == (x[3] \div unit) % 2 = 1
             up == rem > half \/ (rem = half /\ (sticky \/ odd))
         IN  IF up THEN Add3(low, <<0, 0, unit>>) ELSE low

FAdd(x, y) == RoundToDouble(Add3(x, y), FALSE)

\* abs(x - y)
FAbsDiff(x, y) ==
    IF FLess(x, y) THEN RoundToDouble(Sub3(y, x), FALSE)
    ELSE RoundToDouble(Sub3(x, y), FALSE)

\* The float a JSON number of k thousandths parses to: the binary64 nearest
\* to k/1000 (long division of k * 2^72 by 1000, twelve bits a step).
ParseDecimal(k) ==
    LET q0 == k \div 1000
        r0 == k % 1000
        d1 == (r0 * 4096) \div 1000
        r1 == (r0 * 4096) % 1000
        d2 == (r1 * 4096) \div 1000
        r2 == (r1 * 4096) % 1000
        d3 == (r2 * 4096) \div 1000
        r3 == (r2 * 4096) % 1000
        d4 == (r3 * 4096) \div 1000
        r4 == (r3 * 4096) % 1000
        d5 == (r4 * 4096) \div 1000
        r5 == (r4 * 4096) % 1000
        d6 == (r5 * 4096) \div 1000
        r6 == (r5 * 4096) % 1000
    IN  RoundToDouble(<<q0 * Limb + d1 * 4096 + d2, d3 * 4096 + d4, d5 * 4096 + d6>>,
                      r6 # 0)

\* sum(...) over floats: 0 + w1 + w2 + ..., left to right
RECURSIVE FSumFrom(_, _, _)
FSumFrom(acc, ws, i) ==
    IF i > Len(ws) THEN acc ELSE FSumFrom(FAdd(acc, ws[i]), ws, i + 1)

FSum(ws) == FSumFrom(FZero, ws, 1)


(***************************************************************************)
(* Requests.  A weight is the JSON number of the request body, written in  *)
(* thousandths (500 is 0.5); pydantic parses it to a float.                *)
(***************************************************************************)
None == <<>>
Some(v) == <<v>>

MaxRequests == 2
MaxPositions == 2
MaxTicks == 2
TickSeconds == 1800

TTL == 3600
MinItems == 1
MaxItems == 500
MinSimulations == 1000
MaxSimulations == 100000

Requests == 1..MaxRequests
Symbols == {"AAA", "BBB"}
WeightLits == {0, 10, 490, 500, 600, 1000, 1010}
Methods == {"quantum_mc"}
PortfolioIds == {"P1"}
HashSeeds == {"seed1"}

Position(s, w) == [symbol |-> s, weight |-> w]

\* confidence_level and risk_free_rate are JSON numbers in thousandths
RiskParams ==
    [confidence_level : {950}, time_horizon : {1}, method : Methods,
     num_simulations : {Some(10000), None}, risk_free_rate : {20}]

\* current_user as the auth dependency resolves it: a dict, with or without
\* the "user_id" key
Users == {[user_id |-> "u1"], [name |-> "anonymous"]}

\* position lists of the requests that run through the endpoint
Portfolios ==
    { <<Position("AAA", 500), Position("BBB", 500)>>,
      <<Position("AAA", 500), Position("BBB", 505)>>,
      <<Position("AAA", 500), Position("BBB", 600)>>,
      <<Position("AAA", 1000), Position("AAA", 0)>> }

\* every position list up to MaxPositions, for the validator alone
AllPortfolios ==
    UNION { [1..n -> [symbol : Symbols, weight : WeightLits]] : n \in 0..MaxPositions }

RequestsOver(ps) ==
    [portfolio_id : PortfolioIds, positions : ps, base_currency : {"USD"},
     risk_params : RiskParams, current_user : Users]

Weights(ps) == [i \in 1..Len(ps) |-> ParseDecimal(ps[i].weight)]

\* PortfolioPosition: weight: float = Field(..., ge=0, le=1)
PortfolioPosition(pos) ==
    /\ pos.symbol \in Symbols
    /\ ~FLess(ParseDecimal(pos.weight), FZero)
    /\ ~FLess(FOne, ParseDecimal(pos.weight))

\* if abs(total_weight - 1.0) > 0.01: raise ValueError
validate_portfolio_weights(v) ==
    ~FLess(ParseDecimal(10), FAbsDiff(FSum(Weights(v)), FOne))

PortfolioRequest(p) ==
    /\ Len(p.positions) >= MinItems
    /\ Len(p.positions) <= MaxItems
    /\ \A i \in 1..Len(p.positions) : PortfolioPosition(p.positions[i])
    /\ validate_portfolio_weights(p.positions)

RiskCalculationRequest(q) ==
    /\ ~FLess(ParseDecimal(q.confidence_level), ParseDecimal(900))
    /\ ~FLess(ParseDecimal(999), ParseDecimal(q.confidence_level))
    /\ q.time_horizon >= 1 /\ q.time_horizon <= 252
    /\ q.method \in {"historical", "parametric", "monte_carlo", "quantum_mc"}
    /\ \/ q.num_simulations = None
       \/ q.num_simulations[1] >= MinSimulations /\ q.num_simulations[1] <= MaxSimulations
    /\ ~FLess(ParseDecimal(q.risk_free_rate), FZero)
    /\ ~FLess(ParseDecimal(100), ParseDecimal(q.risk_free_rate))

\* FastAPI validates the body before it calls the endpoint
BodyValid(b) == PortfolioRequest(b) /\ RiskCalculationRequest(b.risk_params)

(***************************************************************************)
(* The cache key: f"var:{portfolio_id}:{hash(str(risk_params))}".  str()   *)
(* of the model spells every field; hash() of a str is keyed by the seed   *)
(* the process drew at start, and is taken to be free of collisions.       *)
(***************************************************************************)
StrParams(q) == <<"confidence_level", ParseDecimal(q.confidence_level),
                  "time_horizon", q.time_horizon, "method", q.method,
                  "num_simulations", q.num_simulations,
                  "risk_free_rate", ParseDecimal(q.risk_free_rate)>>

HashStr(salt, s) == [salt |-> salt, of |-> s]

CacheKey(salt, b) == <<"var", b.portfolio_id, HashStr(salt, StrParams(b.risk_params))>>

(***************************************************************************)
(* Portfolio(positions={pos.symbol: pos.weight ...}): a dict keeps the     *)
(* place of a key's first insertion and the value of its last.             *)
(***************************************************************************)
LastWeight(ps, s) ==
    ps[CHOOSE i \in 1..Len(ps) :
          /\ ps[i].symbol = s
          /\ \A j \in (i + 1)..Len(ps) : ps[j].symbol # s].weight

RECURSIVE DictValuesFrom(_, _)
DictValuesFrom(ps, i) ==
    IF i > Len(ps) THEN <<>>
    ELSE IF \A j \in 1..(i - 1) : ps[j].symbol # ps[i].symbol
         THEN <<ParseDecimal(LastWeight(ps, ps[i].symbol))>> \o DictValuesFrom(ps, i + 1)
         ELSE DictValuesFrom(ps, i + 1)

\* portfolio_value = sum(portfolio.positions.values())
PortfolioValue(ps) == FSum(DictValuesFrom(ps, 1))

\* QuantumRiskEngine.calculate_var: (var_result / portfolio_value) * 100
\* raises ZeroDivisionError on a portfolio value of 0.0
EngineCalculateVarRaises(ps) == PortfolioValue(ps) = FZero

\* calculate_portfolio_metrics: every figure is a fixed multiple of the
\* portfolio value or a function of the risk-free rate; the record keeps
\* what determines them
RiskMetrics(b) ==
    [portfolio_value |-> PortfolioValue(b.positions),
     risk_free_rate |-> b.risk_params.risk_free_rate,
     currency |-> b.base_currency]

Methodology(b) ==
    [model_type |-> b.risk_params.method,
     confidence_level |-> b.risk_params.confidence_level,
     time_horizon_days |-> b.risk_params.time_horizon,
     simulation_paths |-> b.risk_params.num_simulations,
     quantum_enhancement |-> TRUE]

RECURSIVE MaxWeightFrom(_, _, _)
MaxWeightFrom(ps, i, best) ==
    IF i > Len(ps) THEN best
    ELSE MaxWeightFrom(ps, i + 1,
            IF FLess(ParseDecimal(ps[best].weight), ParseDecimal(ps[i].weight))
            THEN i ELSE best)

\* a rule that warns at a top weight of 0.3 already
validate_portfolio_risk_inclusive(b) ==
    LET ps == b.positions
        top == ps[MaxWeightFrom(ps, 1, 1)].weight
        micro == {i \in 1..Len(ps) : FLess(ParseDecimal(ps[i].weight), ParseDecimal(10))}
    IN  (IF ~FLess(ParseDecimal(top), ParseDecimal(300))
         THEN <<[warning |-> "High concentration risk", percent |-> top]>> ELSE <<>>)
        \o (IF Len(ps) < 5 THEN <<[warning |-> "Low diversification"]>> ELSE <<>>)
        \o (IF Cardinality(micro) > 10
            THEN <<[warning |-> "Many micro positions", count |-> Cardinality(micro)]>>
            ELSE <<>>)

validate_portfolio_risk(b) ==
    LET ps == b.positions
        top == ps[MaxWeightFrom(ps, 1, 1)].weight
        micro == {i \in 1..Len(ps) : FLess(ParseDecimal(ps[i].weight), ParseDecimal(10))}
    IN  (IF FLess(ParseDecimal(300), ParseDecimal(top))
         THEN <<[warning |-> "High concentration risk", percent |-> top]>> ELSE <<>>)
        \o (IF Len(ps) < 5 THEN <<[warning |-> "Low diversification"]>> ELSE <<>>)
        \o (IF Cardinality(micro) > 10
            THEN <<[warning |-> "Many micro positions", count |-> Cardinality(micro)]>>
            ELSE <<>>)

\* response_data of a fresh computation
ResponseData(b, id, started, ended) ==
    [calculation_id |-> id, timestamp |-> [datetime |-> started], portfolio_id |-> b.portfolio_id,
     risk_metrics |-> RiskMetrics(b), methodology |-> Methodology(b),
     warnings |-> validate_portfolio_risk(b),
     computation_time_ms |-> (ended - started) * 1000]

\* json.dumps(response_data, default=str): the datetime becomes its str()
JsonDumps(d) == [d EXCEPT !.timestamp = [str |-> d.timestamp.datetime]]

\* RiskMetricsResponse(**data): a None among the methodology values is a
\* validation error; a timestamp string is parsed back to a datetime
ResponseModelRaises(d) == d.methodology.simulation_paths = None

ParseTimestamp(t) == [datetime |-> IF "str" \in DOMAIN t THEN t.str ELSE t.datetime]

RiskMetricsResponse(d) ==
    [calculation_id |-> d.calculation_id, timestamp |-> ParseTimestamp(d.timestamp),
     portfolio_id |-> d.portfolio_id, risk_metrics |-> d.risk_metrics,
     methodology |-> d.methodology, warnings |-> d.warnings,
     computation_time_ms |-> d.computation_time_ms]


(***************************************************************************)
(* State.                                                                  *)
(***************************************************************************)
VARIABLES
    req,        \* the body and identity of each request, once it has arrived
    pc,         \* where each request stands
    calc,       \* calculation_id of the handler (0 before it is drawn)
    started,    \* start_time of the handler
    resp,       \* the response each request got
    tasks,      \* background_tasks of each request, not yet run
    ops,        \* what each request did to the cache, the engine and the tasks
    cache,      \* Redis: key -> [value, expires]
    auditLog,   \* what log_calculation has logged
    now,        \* the clock, in seconds
    nextUuid,   \* the next uuid4
    salt        \* the hash seed of the server process

vars == <<req, pc, calc, started, resp, tasks, ops, cache, auditLog, now, nextUuid, salt>>

NoRequest == [portfolio_id |-> None]
NoResponse == [status |-> 0]

InitWith(s) ==
    /\ req = [r \in Requests |-> NoRequest]
    /\ pc = [r \in Requests |-> "idle"]
    /\ calc = [r \in Requests |-> 0]
    /\ started = [r \in Requests |-> 0]
    /\ resp = [r \in Requests |-> NoResponse]
    /\ tasks = [r \in Requests |-> <<>>]
    /\ ops = [r \in Requests |-> <<>>]
    /\ cache = <<>>
    /\ auditLog = <<>>
    /\ now = 0
    /\ nextUuid = 1
    /\ salt = s

Init == \E s \in HashSeeds : InitWith(s)

\* redis get: the live value under k, if any
CacheGet(k) == IF k \in DOMAIN cache THEN Some(cache[k].value) ELSE None

\* redis setex(k, ttl, v)
CacheSetex(k, ttl, v) ==
    [j \in DOMAIN cache \cup {k} |->
        IF j = k THEN [value |-> v, expires |-> now + ttl] ELSE cache[j]]

Http500(why) == [status |-> 500, detail |-> why]
Http200(body) == [status |-> 200, body |-> body]

\* the endpoint called without the body having been validated
ArriveUnchecked(r, b) ==
    /\ pc[r] = "idle"
    /\ \A q \in 1..(r - 1) : pc[q] # "idle"
    /\ req' = [req EXCEPT ![r] = b]
    /\ pc' = [pc EXCEPT ![r] = "validated"]
    /\ UNCHANGED <<calc, started, resp, tasks, ops, cache, auditLog, now, nextUuid, salt>>

\* A request arrives; FastAPI parses and validates the body (422 when it
\* is invalid) before the endpoint runs.
Arrive(r, b) ==
    /\ pc[r] = "idle"
    /\ \A q \in 1..(r - 1) : pc[q] # "idle"
    /\ req' = [req EXCEPT ![r] = b]
    /\ IF BodyValid(b)
       THEN /\ pc' = [pc EXCEPT ![r] = "validated"]
            /\ resp' = resp
       ELSE /\ pc' = [pc EXCEPT ![r] = "responded"]
            /\ resp' = [resp EXCEPT ![r] = [status |-> 422]]
    /\ UNCHANGED <<calc, started, tasks, ops, cache, auditLog, now, nextUuid, salt>>

\* cached_data = json.loads(cached_result) with the calculation_id of this
\* request and from_cache set
CachedData(v, id) == [k \in DOMAIN v \cup {"from_cache"} |->
                        IF k = "calculation_id" THEN id
                        ELSE IF k = "from_cache" THEN TRUE ELSE v[k]]

SameKey(r, q) == CacheKey(salt, req[r]) = CacheKey(salt, req[q])

\* a lookup that, on a miss, joins a computation already in flight for the
\* same key instead of starting its own
BeginSingleFlight(r, getRaises) ==
    LET k == CacheKey(salt, req[r])
        got == CacheGet(k)
        data == CachedData(got[1], nextUuid)
    IN  /\ pc[r] = "validated"
        /\ calc' = [calc EXCEPT ![r] = nextUuid]
        /\ nextUuid' = nextUuid + 1
        /\ started' = [started EXCEPT ![r] = now]
        /\ IF getRaises
           THEN /\ ops' = [ops EXCEPT ![r] = <<"get", "get_raised">>]
                /\ pc' = [pc EXCEPT ![r] = "responded"]
                /\ resp' = [resp EXCEPT ![r] = Http500("get")]
           ELSE IF got # None
           THEN /\ ops' = [ops EXCEPT ![r] = <<"get">>]
                /\ pc' = [pc EXCEPT ![r] = "responded"]
                /\ resp' = [resp EXCEPT ![r] =
                     IF ResponseModelRaises(data) THEN Http500("response")
                     ELSE Http200(RiskMetricsResponse(data))]
           ELSE /\ ops' = [ops EXCEPT ![r] = <<"get">>]
                /\ pc' = [pc EXCEPT ![r] =
                     IF \E q \in Requests \ {r} : pc[q] = "awaiting" /\ SameKey(r, q)
                     THEN "joined" ELSE "awaiting"]
                /\ resp' = resp
        /\ UNCHANGED <<req, tasks, cache, auditLog, now, salt>>

\* a hit that writes the payload it serves back to the cache
BeginRefresh(r, getRaises) ==
    LET k == CacheKey(salt, req[r])
        got == CacheGet(k)
        data == CachedData(got[1], nextUuid)
    IN  /\ pc[r] = "validated"
        /\ calc' = [calc EXCEPT ![r] = nextUuid]
        /\ nextUuid' = nextUuid + 1
        /\ started' = [started EXCEPT ![r] = now]
        /\ IF getRaises
           THEN /\ ops' = [ops EXCEPT ![r] = <<"get", "get_raised">>]
                /\ pc' = [pc EXCEPT ![r] = "responded"]
                /\ resp' = [resp EXCEPT ![r] = Http500("get")]
                /\ cache' = cache
           ELSE IF got # None
           THEN /\ ops' = [ops EXCEPT ![r] = <<"get">>]
                /\ pc' = [pc EXCEPT ![r] = "responded"]
                /\ resp' = [resp EXCEPT ![r] =
                     IF ResponseModelRaises(data) THEN Http500("response")
                     ELSE Http200(RiskMetricsResponse(data))]
                /\ cache' = CacheSetex(k, TTL, data)
           ELSE /\ ops' = [ops EXCEPT ![r] = <<"get">>]
                /\ pc' = [pc EXCEPT ![r] = "awaiting"]
                /\ resp' = resp
                /\ cache' = cache
        /\ UNCHANGED <<req, tasks, auditLog, now, salt>>

\* calculate_var up to its await: draw the id, look the key up, and answer
\* from the cache on a hit.  getRaises: redis_client.get raises.
Begin(r, getRaises) ==
    LET k == CacheKey(salt, req[r])
        got == CacheGet(k)
        data == CachedData(got[1], nextUuid)
    IN  /\ pc[r] = "validated"
        /\ calc' = [calc EXCEPT ![r] = nextUuid]
        /\ nextUuid' = nextUuid + 1
        /\ started' = [started EXCEPT ![r] = now]
        /\ IF getRaises
           THEN /\ ops' = [ops EXCEPT ![r] = <<"get", "get_raised">>]
                /\ pc' = [pc EXCEPT ![r] = "responded"]
                /\ resp' = [resp EXCEPT ![r] = Http500("get")]
           ELSE IF got # None
           THEN /\ ops' = [ops EXCEPT ![r] = <<"get">>]
                /\ pc' = [pc EXCEPT ![r] = "responded"]
                /\ resp' = [resp EXCEPT ![r] =
                     IF ResponseModelRaises(data) THEN Http500("response")
                     ELSE Http200(RiskMetricsResponse(data))]
           ELSE /\ ops' = [ops EXCEPT ![r] = <<"get">>]
                /\ pc' = [pc EXCEPT ![r] = "awaiting"]
                /\ resp' = resp
        /\ UNCHANGED <<req, tasks, cache, auditLog, now, salt>>

AuditTask(r) ==
    [calculation_id |-> calc[r], portfolio_id |-> req[r].portfolio_id,
     user_id |-> req[r].current_user.user_id, calculation_type |-> "var_calculation"]

\* a handler that stores its payload before the engine has run
ResumeStoreFirst(r, setexRaises) ==
    LET b == req[r]
        data == ResponseData(b, calc[r], started[r], now)
        hasUser == "user_id" \in DOMAIN b.current_user
    IN  /\ pc[r] = "awaiting"
        /\ pc' = [pc EXCEPT ![r] = "responded"]
        /\ IF setexRaises
           THEN /\ ops' = [ops EXCEPT ![r] = @ \o <<"setex", "setex_raised">>]
                /\ resp' = [resp EXCEPT ![r] = Http500("setex")]
                /\ UNCHANGED <<cache, tasks>>
           ELSE /\ cache' = CacheSetex(CacheKey(salt, b), TTL, JsonDumps(data))
                /\ IF EngineCalculateVarRaises(b.positions)
                   THEN /\ ops' = [ops EXCEPT ![r] = @ \o
                              <<"setex", "stored", "compute", "compute_raised">>]
                        /\ resp' = [resp EXCEPT ![r] = Http500("compute")]
                        /\ tasks' = tasks
                   ELSE IF ~hasUser
                   THEN /\ ops' = [ops EXCEPT ![r] = @ \o
                              <<"setex", "stored", "compute", "computed",
                                "add_task_raised">>]
                        /\ resp' = [resp EXCEPT ![r] = Http500("add_task")]
                        /\ tasks' = tasks
                   ELSE /\ ops' = [ops EXCEPT ![r] = @ \o
                              <<"setex", "stored", "compute", "computed", "add_task">>]
                        /\ tasks' = [tasks EXCEPT ![r] = Append(@, AuditTask(r))]
                        /\ resp' = [resp EXCEPT ![r] =
                             IF ResponseModelRaises(data) THEN Http500("response")
                             ELSE Http200(RiskMetricsResponse(data))]
        /\ UNCHANGED <<req, calc, started, auditLog, now, nextUuid, salt>>

\* calculate_var after its await: compute, assemble, store, dispatch the
\* audit task, answer.  Whatever raises ends the request with HTTP 500
\* there and then.  setexRaises: redis_client.setex raises.
Resume(r, setexRaises) ==
    LET b == req[r]
        data == ResponseData(b, calc[r], started[r], now)
        hasUser == "user_id" \in DOMAIN b.current_user
    IN  /\ pc[r] = "awaiting"
        /\ pc' = [pc EXCEPT ![r] = "responded"]
        /\ IF EngineCalculateVarRaises(b.positions)
           THEN /\ ops' = [ops EXCEPT ![r] = @ \o <<"compute", "compute_raised">>]
                /\ resp' = [resp EXCEPT ![r] = Http500("compute")]
                /\ UNCHANGED <<cache, tasks>>
           ELSE IF setexRaises
           THEN /\ ops' = [ops EXCEPT ![r] =
                             @ \o <<"compute", "computed", "setex", "setex_raised">>]
                /\ resp' = [resp EXCEPT ![r] = Http500("setex")]
                /\ UNCHANGED <<cache, tasks>>
           ELSE /\ cache' = CacheSetex(CacheKey(salt, b), TTL, JsonDumps(data))
                /\ IF ~hasUser
                   THEN /\ ops' = [ops EXCEPT ![r] = @ \o
                              <<"compute", "computed", "setex", "stored",
                                "add_task_raised">>]
                        /\ resp' = [resp EXCEPT ![r] = Http500("add_task")]
                        /\ tasks' = tasks
                   ELSE /\ ops' = [ops EXCEPT ![r] = @ \o
                              <<"compute", "computed", "setex", "stored", "add_task">>]
                        /\ tasks' = [tasks EXCEPT ![r] = Append(@, AuditTask(r))]
                        /\ resp' = [resp EXCEPT ![r] =
                             IF ResponseModelRaises(data) THEN Http500("response")
                             ELSE Http200(RiskMetricsResponse(data))]
        /\ UNCHANGED <<req, calc, started, auditLog, now, nextUuid, salt>>

\* After a 200 response went out, Starlette runs its background tasks:
\* log_calculation.  A request that ended in HTTPException runs none.
RunBackground(r) ==
    /\ pc[r] = "responded"
    /\ resp[r].status = 200
    /\ tasks[r] # <<>>
    /\ tasks' = [tasks EXCEPT ![r] = Tail(@)]
    /\ auditLog' = Append(auditLog, Head(tasks[r]))
    /\ UNCHANGED <<req, pc, calc, started, resp, ops, cache, now, nextUuid, salt>>

\* Time passes; Redis drops the entries whose TTL has run out.
Tick ==
    /\ now + TickSeconds <= MaxTicks * TickSeconds
    /\ now' = now + TickSeconds
    /\ cache' = [k \in {j \in DOMAIN cache : cache[j].expires > now + TickSeconds}
                   |-> cache[k]]
    /\ UNCHANGED <<req, pc, calc, started, resp, tasks, ops, auditLog, nextUuid, salt>>

Next ==
    \/ \E r \in Requests, b \in RequestsOver(Portfolios) : Arrive(r, b)
    \/ \E r \in Requests, getRaises \in BOOLEAN : Begin(r, getRaises)
    \/ \E r \in Requests, setexRaises \in BOOLEAN : Resume(r, setexRaises)
    \/ \E r \in Requests : RunBackground(r)
    \/ Tick

Spec == Init /\ [][Next]_vars

\* The validator alone, over every position list up to MaxPositions.
NextValidation == \E b \in RequestsOver(AllPortfolios) : Arrive(1, b)

SpecValidation == Init /\ [][NextValidation]_vars

(***************************************************************************)
(* The warnings.  validate_portfolio_risk needs more than ten positions to *)
(* show all it does, so its requests are drawn from the lists made of a    *)
(* run of small positions followed by a run of large ones, and run through *)
(* the endpoint one at a time.                                             *)
(***************************************************************************)
MaxMicro == 12
MaxLarge == 5

SmallWeightLits == {0, 5, 9, 10, 100}
LargeWeightLits == {100, 200, 236, 250, 300, 301, 400, 890, 945, 950, 1000}

\* n positions of weight w, the symbols taking turns
Run(n, w) == [i \in 1..n |-> Position(IF i % 2 = 1 THEN "AAA" ELSE "BBB", w)]

WarningPortfolios ==
    { Run(n1, w1) \o Run(n2, w2) :
        n1 \in 0..MaxMicro, w1 \in SmallWeightLits,
        n2 \in 0..MaxLarge, w2 \in LargeWeightLits }

WarningRequests ==
    { b \in RequestsOver(WarningPortfolios) :
        /\ b.risk_params.num_simulations # None
        /\ "user_id" \in DOMAIN b.current_user }

NextWarnings ==
    \/ \E b \in WarningRequests : Arrive(1, b)
    \/ Begin(1, FALSE)
    \/ Resume(1, FALSE)

SpecWarnings == Init /\ [][NextWarnings]_vars

(***************************************************************************)
(* The cache key across server processes.  Every Python process draws its  *)
(* own hash seed at start (hash randomisation is on unless PYTHONHASHSEED  *)
(* is set), while Redis lives on: a process that replaces another, or      *)
(* serves beside it, derives its keys under another seed.                  *)
(***************************************************************************)
ProcessSeeds == {"seed1", "seed2"}

KeyRiskParams ==
    [confidence_level : {950, 990}, time_horizon : {1, 10},
     method : {"quantum_mc", "historical"},
     num_simulations : {Some(10000), Some(50000)}, risk_free_rate : {20, 30}]

KeyRequests ==
    [portfolio_id : PortfolioIds,
     positions : {<<Position("AAA", 500), Position("BBB", 500)>>},
     base_currency : {"USD"}, risk_params : KeyRiskParams,
     current_user : {[user_id |-> "u1"]}]

\* the next requests are served by a process with another hash seed
Restart ==
    /\ \A r \in Requests : pc[r] \in {"idle", "responded"}
    /\ salt' \in ProcessSeeds \ {salt}
    /\ UNCHANGED <<req, pc, calc, started, resp, tasks, ops, cache, auditLog, now, nextUuid>>

InitCacheKey == \E s \in ProcessSeeds : InitWith(s)

NextCacheKey ==
    \/ \E r \in Requests, b \in KeyRequests : Arrive(r, b)
    \/ \E r \in Requests : Begin(r, FALSE)
    \/ \E r \in Requests : Resume(r, FALSE)
    \/ Restart

SpecCacheKey == InitCacheKey /\ [][NextCacheKey]_vars

(***************************************************************************)
(* The optimize endpoint (optimize_portfolio).  Its body has no constraint *)
(* tying the two lists together, so every body below passes validation and *)
(* the endpoint runs: the length check, then the await of the covariance   *)
(* load, then the optimizer.  The length check raises HTTPException inside *)
(* the try, and HTTPException is an Exception: the handler's own except    *)
(* clause catches it and raises HTTP 500 in its place.                     *)
(***************************************************************************)
MaxAssets == 2

ReturnLits == {80, 120}

ListsOver(S) == UNION { [1..n -> S] : n \in 0..MaxAssets }

OptimizationRequest ==
    [expected_returns : ListsOver(ReturnLits), symbols : ListsOver(Symbols)]

IsOptimization(r) == "expected_returns" \in DOMAIN req[r]

ArriveOptimize(r, b) ==
    /\ pc[r] = "idle"
    /\ \A q \in 1..(r - 1) : pc[q] # "idle"
    /\ req' = [req EXCEPT ![r] = b]
    /\ pc' = [pc EXCEPT ![r] = "validated"]
    /\ UNCHANGED <<calc, started, resp, tasks, ops, cache, auditLog, now, nextUuid, salt>>

\* optimize_portfolio up to its await
BeginOptimize(r) ==
    /\ pc[r] = "validated" /\ IsOptimization(r)
    /\ calc' = [calc EXCEPT ![r] = nextUuid]
    /\ nextUuid' = nextUuid + 1
    /\ started' = [started EXCEPT ![r] = now]
    /\ IF Len(req[r].expected_returns) # Len(req[r].symbols)
       THEN /\ ops' = [ops EXCEPT ![r] = <<"length_check_raised">>]
            /\ pc' = [pc EXCEPT ![r] = "responded"]
            /\ resp' = [resp EXCEPT ![r] = Http500("length_check")]
       ELSE /\ ops' = [ops EXCEPT ![r] = <<"load_covariance">>]
            /\ pc' = [pc EXCEPT ![r] = "awaiting"]
            /\ resp' = resp
    /\ UNCHANGED <<req, tasks, cache, auditLog, now, salt>>

\* optimize_portfolio after its await.  optimizerRaises: the optimizer, or
\* the assembly of the response from its result, raises.
ResumeOptimize(r, optimizerRaises) ==
    /\ pc[r] = "awaiting" /\ IsOptimization(r)
    /\ pc' = [pc EXCEPT ![r] = "responded"]
    /\ IF optimizerRaises
       THEN /\ ops' = [ops EXCEPT ![r] = @ \o <<"optimize", "optimize_raised">>]
            /\ resp' = [resp EXCEPT ![r] = Http500("optimize")]
       ELSE /\ ops' = [ops EXCEPT ![r] = @ \o <<"optimize", "optimized">>]
            /\ resp' = [resp EXCEPT ![r] =
                 Http200([optimization_id |-> calc[r],
                          timestamp |-> [datetime |-> started[r]],
                          assets |-> Len(req[r].symbols)])]
    /\ UNCHANGED <<req, calc, started, tasks, cache, auditLog, now, nextUuid, salt>>

NextOptimize ==
    \/ \E r \in Requests, b \in OptimizationRequest : ArriveOptimize(r, b)
    \/ \E r \in Requests : BeginOptimize(r)
    \/ \E r \in Requests, optimizerRaises \in BOOLEAN : ResumeOptimize(r, optimizerRaises)

SpecOptimize == Init /\ [][NextOptimize]_vars

(***************************************************************************)
(* Properties.                                                             *)
(***************************************************************************)
Arrived(r) == pc[r] # "idle"
DidIn(o, e) == \E i \in 1..Len(o) : o[i] = e
Did(r, e) == DidIn(ops[r], e)
Key(r) == CacheKey(salt, req[r])
WeightLitsOf(b) == [i \in 1..Len(b.positions) |-> b.positions[i].weight]

RECURSIVE DecimalSum(_, _)
DecimalSum(ws, i) == IF i > Len(ws) THEN 0 ELSE ws[i] + DecimalSum(ws, i + 1)

\* the field constraints other than the weight sum, on the numbers as written
OtherConstraintsHold(b) ==
    /\ Len(b.positions) >= 1
    /\ \A i \in 1..Len(b.positions) :
          b.positions[i].weight >= 0 /\ b.positions[i].weight <= 1000

\* C1: a portfolio whose weights sum to a value in [0.99, 1.01] passes
\* validation, and one whose weights sum to a value outside it is rejected
\* (422), the other field constraints being satisfied.
C1_WeightSumBand ==
    \A r \in Requests :
        Arrived(r) /\ OtherConstraintsHold(req[r]) =>
            LET total == DecimalSum(WeightLitsOf(req[r]), 1)
            IN  (resp[r].status # 422) <=> (total >= 990 /\ total <= 1010)

\* C2: a request that fails validation (such as weights 0.5 and 0.6) ends
\* in a validation error, and nothing was done for it: no cache lookup or
\* store, no computation, no audit task, not even a calculation id.
C2_FailFast ==
    \A r \in Requests :
        Arrived(r) /\ ~BodyValid(req[r]) =>
            /\ pc[r] = "responded" /\ resp[r].status = 422
            /\ ops[r] = <<>> /\ tasks[r] = <<>> /\ calc[r] = 0
            /\ \A i \in 1..Len(auditLog) : auditLog[i].calculation_id # calc[r]

C2_Witness ==
    \E r, q \in Requests :
        /\ resp[r].status = 422 /\ WeightLitsOf(req[r]) = <<500, 600>>
        /\ Did(q, "stored")
\* C3: once a request has stored its result under a key, a later request
\* with the same portfolio id and risk parameters that looks the key up
\* while the entry is live (the lookup itself not failing) is answered from
\* the cache: no computation, a 200 response carrying the stored metrics,
\* methodology and warnings, under a calculation id of its own.
C3_CacheHitServes ==
    [][\A r \in Requests :
        ( /\ pc[r] = "validated" /\ pc'[r] # "validated"
          /\ ~DidIn(ops'[r], "get_raised")
          /\ \E q \in Requests \ {r} :
                /\ Did(q, "stored")
                /\ req[q].portfolio_id = req[r].portfolio_id
                /\ req[q].risk_params = req[r].risk_params
                /\ Key(q) \in DOMAIN cache )
        => /\ pc'[r] = "responded"
           /\ ~DidIn(ops'[r], "compute")
           /\ resp'[r].status = 200
           /\ resp'[r].body.risk_metrics = cache[Key(r)].value.risk_metrics
           /\ resp'[r].body.methodology = cache[Key(r)].value.methodology
           /\ resp'[r].body.warnings = cache[Key(r)].value.warnings
           /\ resp'[r].body.calculation_id # cache[Key(r)].value.calculation_id]_vars

\* C4: within one request the cache lookup comes first, the engine runs
\* only after the lookup, and the store is attempted only after the engine
\* has returned.
C4_LookupComputeStoreOrder ==
    \A r \in Requests :
        \A i \in 1..Len(ops[r]) :
            /\ ops[r][i] = "get" => i = 1
            /\ ops[r][i] = "compute" => \E j \in 1..(i - 1) : ops[r][j] = "get"
            /\ ops[r][i] = "setex" => \E j \in 1..(i - 1) : ops[r][j] = "computed"

C4_Witness == \E r \in Requests : Did(r, "stored") /\ resp[r].status = 200

\* a step in which request r, having missed, computed and stored under k
StoredByMisser(k) ==
    \E r \in Requests :
        /\ pc[r] = "awaiting" /\ ops[r] = <<"get">> /\ Key(r) = k
        /\ DidIn(ops'[r], "computed") /\ DidIn(ops'[r], "stored")
        /\ cache'[k].value.calculation_id = calc[r]
        /\ cache'[k].expires = now + TTL

\* C5 as stated: an entry appears only through a request that missed and
\* computed, and once it exists no step changes it: it stays as it is
\* until its TTL has run out.
C5_EntryReadOnly ==
    [][/\ \A k \in DOMAIN cache' \ DOMAIN cache : StoredByMisser(k)
       /\ \A k \in DOMAIN cache :
            \/ k \in DOMAIN cache' /\ cache'[k] = cache[k]
            \/ k \notin DOMAIN cache' /\ cache[k].expires <= now']_vars

\* C5, amended: an entry is written (created, or replaced with its TTL
\* restarted) only by a request that missed on its key and then computed
\* successfully; apart from such a write it stays as it is until its TTL
\* has run out.
C5_EntryWrittenOnlyAfterMiss ==
    [][/\ \A k \in DOMAIN cache' :
            \/ k \in DOMAIN cache /\ cache'[k] = cache[k]
            \/ StoredByMisser(k)
       /\ \A k \in DOMAIN cache \ DOMAIN cache' : cache[k].expires <= now']_vars

C5_Witness ==
    \E r, q \in Requests :
        /\ r # q /\ Did(r, "stored") /\ Did(q, "stored") /\ SameKey(r, q)
        /\ now < TTL
        /\ cache[Key(r)].value.calculation_id = calc[q]
        /\ calc[r] < calc[q]

\* C6: a lookup that finds no entry always goes on to compute, whatever
\* the other requests are doing: nothing holds a request back while a
\* computation for the same key is in flight.
C6_NoSingleFlight ==
    [][\A r \in Requests :
        ( /\ pc[r] = "validated" /\ pc'[r] # "validated"
          /\ ~DidIn(ops'[r], "get_raised")
          /\ Key(r) \notin DOMAIN cache )
        => pc'[r] = "awaiting"]_vars

C6_TwoInFlight ==
    \E r, q \in Requests :
        r # q /\ pc[r] = "awaiting" /\ pc[q] = "awaiting" /\ SameKey(r, q)

\* C7: a request whose cache lookup or cache store raised still computes
\* and answers 200.
C7_CacheFailureTolerated ==
    \A r \in Requests :
        pc[r] = "responded" /\ (Did(r, "get_raised") \/ Did(r, "setex_raised")) =>
            Did(r, "computed") /\ resp[r].status = 200

\* C8: a request whose computation raises ends with HTTP 500, has made no
\* store and dispatched no audit task, and the step in which it fails
\* leaves the cache as it was.
C8_ComputeFailure ==
    [][\A r \in Requests :
        DidIn(ops'[r], "compute_raised") =>
            /\ resp'[r].status = 500
            /\ ~DidIn(ops'[r], "setex") /\ ~DidIn(ops'[r], "add_task")
            /\ tasks'[r] = <<>>
            /\ \A i \in 1..Len(auditLog') : auditLog'[i].calculation_id # calc'[r]
            /\ ops'[r] # ops[r] => cache' = cache]_vars

C8_Witness ==
    \E r, q \in Requests :
        /\ Did(r, "compute_raised") /\ resp[r].status = 500
        /\ Did(q, "stored") /\ calc[q] < calc[r]

\* the audit entries dispatched for calculation id c, run or still queued
AuditsFor(r, c) ==
    Cardinality({i \in 1..Len(tasks[r]) : tasks[r][i].calculation_id = c})
    + Cardinality({i \in 1..Len(auditLog) : auditLog[i].calculation_id = c})

\* C9: every request answered 200, from the cache or freshly computed, has
\* dispatched exactly one audit entry, carrying the response's calculation
\* id, the portfolio id and the user id.
C9_OneAuditPerSuccess ==
    \A r \in Requests :
        resp[r].status = 200 =>
            /\ AuditsFor(r, resp[r].body.calculation_id) = 1
            /\ \A t \in {tasks[r][i] : i \in 1..Len(tasks[r])}
                     \cup {auditLog[i] : i \in 1..Len(auditLog)} :
                  t.calculation_id = resp[r].body.calculation_id =>
                      /\ t.portfolio_id = req[r].portfolio_id
                      /\ t.user_id = req[r].current_user.user_id

\* C10: a request whose computation succeeded is not turned into an error
\* by a failure in preparing or running its audit task.
C10_AuditFailureHarmless ==
    \A r \in Requests :
        Did(r, "computed") /\ Did(r, "add_task_raised") => resp[r].status = 200

\* C11: the computation time in a 200 response is the elapsed time of the
\* request that returns it, from its start_time to the moment it answers:
\* on a cache hit its own elapsed time, not the time the request that
\* populated the entry recorded.
C11_OwnComputationTime ==
    [][\A r \in Requests :
        pc[r] # "responded" /\ pc'[r] = "responded" /\ resp'[r].status = 200 =>
            resp'[r].body.computation_time_ms = (now' - started'[r]) * 1000]_vars

\* the warnings by their kinds, and the kinds the rule calls for, read off
\* the weights as written
WarningKinds(ws) == [i \in 1..Len(ws) |-> ws[i].warning]

ExpectedWarnings(lits) ==
    (IF \E i \in 1..Len(lits) : lits[i] > 300
     THEN <<"High concentration risk">> ELSE <<>>)
    \o (IF Len(lits) < 5 THEN <<"Low diversification">> ELSE <<>>)
    \o (IF Cardinality({i \in 1..Len(lits) : lits[i] < 10}) > 10
        THEN <<"Many micro positions">> ELSE <<>>)

ElevenMicroAndOne == [i \in 1..12 |-> IF i <= 11 THEN 5 ELSE 945]

\* C12: validate_portfolio_risk rejects nothing: a validated request that
\* computed and stored is answered 200, and its warnings are, in this
\* order, a concentration warning exactly when some weight is > 0.3, a
\* low-diversification warning exactly when there are fewer than 5
\* positions, and a micro-position warning exactly when more than 10
\* positions weigh < 0.01.  Eleven positions of 0.005 and one of 0.945 pass
\* the weight-sum check and get the micro-position warning.
C12_Warnings ==
    \A r \in Requests :
        /\ Arrived(r) /\ BodyValid(req[r]) =>
              WarningKinds(validate_portfolio_risk(req[r]))
                  = ExpectedWarnings(WeightLitsOf(req[r]))
        /\ Did(r, "stored") =>
              /\ resp[r].status = 200
              /\ WarningKinds(resp[r].body.warnings)
                    = ExpectedWarnings(WeightLitsOf(req[r]))
              /\ WarningKinds(cache[Key(r)].value.warnings)
                    = ExpectedWarnings(WeightLitsOf(req[r]))
        /\ Arrived(r) /\ WeightLitsOf(req[r]) = ElevenMicroAndOne =>
              /\ resp[r].status # 422
              /\ DidIn(WarningKinds(validate_portfolio_risk(req[r])),
                       "Many micro positions")

C12_Witness ==
    \E r \in Requests :
        /\ Arrived(r) /\ WeightLitsOf(req[r]) = ElevenMicroAndOne
        /\ resp[r].status = 200
        /\ WarningKinds(resp[r].body.warnings)
              = <<"High concentration risk", "Many micro positions">>

\* the keys of the live entries that request r wrote
KeysWrittenBy(r) == {k \in DOMAIN cache : cache[k].value.calculation_id = calc[r]}

\* C13: two requests for the same portfolio id derive the same key when
\* their risk parameters are the same, whichever request and whichever
\* server process derives it, and different keys when the parameters
\* differ in confidence level, horizon, method, simulation count or
\* risk-free rate: of two requests that stored, no two entries stand for
\* one (portfolio id, parameters) pair, and two pairs never share an entry.
C13_KeyDeterministicAndSensitive ==
    \A r, q \in Requests :
        ( /\ r # q /\ Did(r, "stored") /\ Did(q, "stored")
          /\ req[r].portfolio_id = req[q].portfolio_id )
        => IF req[r].risk_params = req[q].risk_params
           THEN Cardinality(KeysWrittenBy(r) \cup KeysWrittenBy(q)) = 1
           ELSE /\ Cardinality(KeysWrittenBy(r)) = 1
                /\ Cardinality(KeysWrittenBy(q)) = 1
                /\ KeysWrittenBy(r) # KeysWrittenBy(q)

\* C14: an optimize request whose expected returns and symbols differ in
\* number is answered HTTP 400, and neither the covariance load nor the
\* optimizer ran for it.
C14_LengthMismatchIs400 ==
    \A r \in Requests :
        ( /\ pc[r] = "responded" /\ IsOptimization(r)
          /\ Len(req[r].expected_returns) # Len(req[r].symbols) )
        => /\ resp[r].status = 400
           /\ ~Did(r, "load_covariance") /\ ~Did(r, "optimize")

\* C15: for every validated request that missed the cache and went to the
\* engine, positions sharing a symbol included, the portfolio value the
\* engine sums from the symbol-to-weight map is strictly positive, and
\* calculate_var completes: no division error, a strictly positive VaR
\* amount (a fixed positive multiple of the portfolio value).
C15_EngineCompletes ==
    \A r \in Requests :
        Did(r, "compute") =>
            /\ FLess(FZero, PortfolioValue(req[r].positions))
            /\ ~Did(r, "compute_raised")

\* C16: a response served from the cache carries the risk metrics and the
\* warnings that a fresh computation on the request's own positions and
\* base currency would produce.
C16_HitMatchesOwnPortfolio ==
    \A r \in Requests :
        resp[r].status = 200 /\ ~Did(r, "compute") =>
            /\ resp[r].body.risk_metrics = RiskMetrics(req[r])
            /\ resp[r].body.warnings = validate_portfolio_risk(req[r])
====
